---- MODULE Spec2Model ----
(***************************************************************************)
(* A model of Nice::KDAC<T> (src/cpp/include/kdac.h): the configuration    *)
(* setters and their q <= c check, the constructor, Fit(input) with its    *)
(* Init / OptimizeU / OptimizeW steps, Fit(void) and Predict.              *)
(*                                                                         *)
(* One object is modelled.  `status` says whether the process that owns    *)
(* it still runs: CheckCQ ends it with exit(1) ("exited"); an Eigen        *)
(* assertion or a crash ends it too ("aborted"), and so does a numerical   *)
(* failure reported by the degree normalizer ("failed").  `pc` is the      *)
(* position                                                                *)
(* inside the constructor or inside Fit(input); "idle" is between two      *)
(* public calls.  Floating-point entries are modelled exactly (integers,   *)
(* rationals as <<num, den>>) or, for the collaborators whose code is not  *)
(* in this repository's src/, as terms over their inputs.                  *)
(***************************************************************************)
EXTENDS Integers, Sequences, FiniteSets

(* ------------------------------ bounds -------------------------------- *)

\* Arguments of SetC / SetQ range over 0..MaxInt.
MaxInt == 2
\* Input matrices have at most MaxN rows and MaxD columns.
MaxN == 1
MaxD == 2

\* The default cluster number and reduced dimension (KDAC()).
DefaultC == 2
DefaultQ == 2

Ints == 0..MaxInt
\* The values an uninitialized int member may hold: some let the first
\* CheckCQ pass, one does not.
IndeterminateInts == 0..(DefaultC + 1)
Dims == 0..MaxN
\* The entries of the input matrices offered to Fit.
Vals == {0, 1}
KernelTypes == {"kGaussianKernel", "kPolynomialKernel", "kLinearKernel"}
\* The kernel constant offered to SetKernel and found in uninitialized
\* memory: 1.0 (no step of the engine depends on its value).
Constants == {1}

(* ----------------------------- matrices ------------------------------- *)

\* The <<row, col>> positions of an r x c matrix.
Index(r, c) == (1..r) \X (1..c)

\* A dense matrix: its shape and its entries, a function of the position.
Matrix(r, c, entries) == [rows |-> r, cols |-> c, a |-> entries]

\* A default-constructed Matrix<T>: 0 x 0.
EmptyMatrix == [rows |-> 0, cols |-> 0, a |-> [p \in {} |-> 0]]

\* A default-constructed Vector<T>: length 0.
EmptyVector == [len |-> 0, a |-> [i \in {} |-> 0]]

\* Matrix<T>::Identity(r, c)
Identity(r, c) ==
  LET e == [p \in Index(r, c) |->
            LET i == p[1]
                j == p[2]
            IN IF i = j THEN 1 ELSE 0]
  IN Matrix(r, c, e)

\* Vector<T>::Zero(n)
ZeroVector(n) == [len |-> n, a |-> [i \in 1..n |-> 0]]

RECURSIVE DotSum(_, _, _, _, _)
\* sum over k = 1..n of A[i,k] * B[k,j]
DotSum(A, B, i, j, n) ==
  IF n = 0 THEN 0 ELSE DotSum(A, B, i, j, n - 1) + A.a[<<i, n>>] * B.a[<<n, j>>]

\* Matrix product A * B (A.cols = B.rows)
Multiply(A, B) ==
  LET e == [p \in Index(A.rows, B.cols) |->
            LET i == p[1]
                j == p[2]
            IN DotSum(A, B, i, j, A.cols)]
  IN Matrix(A.rows, B.cols, e)

\* The input matrices offered to Fit: for every shape n x d and every v in
\* Vals, the matrix whose first row is filled with v and whose other rows
\* are zero.
SampleInput(n, d, v) ==
  LET e == [p \in Index(n, d) |->
            LET i == p[1]
                j == p[2]
            IN IF i = 1 THEN v ELSE 0]
  IN Matrix(n, d, e)

Inputs == { SampleInput(n, d, v) : n \in 0..MaxN, d \in 0..MaxD, v \in Vals }

(* ------------------------------ state --------------------------------- *)

VARIABLES
  status,      \* "running" | "exited" (exit(1)) | "aborted" (assertion, crash)
               \* | "failed" (the degree normalizer's numerical failure)
  pc,          \* position inside the constructor or Fit(input), or "idle"
  c_, q_, n_, d_,
  kernel_type_, constant_,
  u_converge, v_converge,
  x_matrix_, w_matrix_, y_matrix_,
  d_matrix_, d_matrix_to_the_minus_half_, k_matrix_,
  u_matrix_, u_matrix_normalized_, l_matrix_, h_matrix_,
  clustering_result,
  ret,         \* what the last public call returned (NoRet: nothing)
  phases,      \* the phases the current or last Fit(input) has run
  embed_done,  \* whether an OptimizeU has ever completed
  nonpositive_degree  \* whether the last D computed from K had a zero or
                      \* negative diagonal entry

config == <<c_, q_, kernel_type_, constant_>>
dims == <<n_, d_>>
flags == <<u_converge, v_converge>>
init_matrices == <<x_matrix_, w_matrix_, h_matrix_, clustering_result>>
embed_matrices == <<k_matrix_, d_matrix_, d_matrix_to_the_minus_half_,
                    l_matrix_, u_matrix_, u_matrix_normalized_>>
fields == <<config, dims, flags, init_matrices, y_matrix_, embed_matrices>>
history == <<phases, embed_done, nonpositive_degree>>
vars == <<status, pc, fields, ret, history>>

NoRet == [kind |-> "none"]

CtorPcs == {"ctor_SetC", "ctor_SetQ", "ctor_SetKernel"}
FitPcs == {"OptimizeU", "OptimizeW"}

\* The object's memory when the constructor body starts: the scalar members
\* are uninitialized (any value), the matrix members default-constructed.
\* q_ is the one member the code reads before it assigns it; of n_, d_ and
\* the flags, which Init assigns before any read, two memory images are taken.
Init ==
  /\ status = "running"
  /\ pc = "ctor_SetC"
  /\ c_ \in IndeterminateInts /\ q_ \in IndeterminateInts
  /\ \E m \in {<<0, 0, FALSE, FALSE>>, <<MaxN, MaxD, TRUE, TRUE>>} :
       n_ = m[1] /\ d_ = m[2] /\ u_converge = m[3] /\ v_converge = m[4]
  /\ kernel_type_ \in KernelTypes /\ constant_ \in Constants
  /\ x_matrix_ = EmptyMatrix /\ w_matrix_ = EmptyMatrix
  /\ y_matrix_ = EmptyMatrix /\ d_matrix_ = EmptyMatrix
  /\ d_matrix_to_the_minus_half_ = EmptyMatrix /\ k_matrix_ = EmptyMatrix
  /\ u_matrix_ = EmptyMatrix /\ u_matrix_normalized_ = EmptyMatrix
  /\ l_matrix_ = EmptyMatrix /\ h_matrix_ = EmptyMatrix
  /\ clustering_result = EmptyVector
  /\ ret = NoRet
  /\ phases = <<>>
  /\ embed_done = FALSE
  /\ nonpositive_degree = FALSE

(* --------------------------- configuration ---------------------------- *)

\* A CheckCQ that lets q exceed c by one.
CheckCQ_off_by_one(c, q) == q > c + 1

\* A CheckCQ whose comparison has its operands swapped.
CheckCQ_reversed(c, q) == c > q

\* CheckCQ: whether the check ends the process (q_ > c_).
CheckCQ(c, q) == q > c

\* SetC(c): c_ = c; CheckCQ();
SetCBody(c) ==
  /\ c_' = c
  /\ status' = IF CheckCQ(c, q_) THEN "exited" ELSE status
  /\ UNCHANGED <<q_, kernel_type_, constant_>>

\* SetQ(q): q_ = q; CheckCQ();
SetQBody(q) ==
  /\ q_' = q
  /\ status' = IF CheckCQ(c_, q) THEN "exited" ELSE status
  /\ UNCHANGED <<c_, kernel_type_, constant_>>

\* SetKernel(kernel_type, constant)
SetKernelBody(t, k) ==
  /\ kernel_type_' = t
  /\ constant_' = k
  /\ UNCHANGED <<c_, q_, status>>

Untouched == UNCHANGED <<dims, flags, init_matrices, y_matrix_, embed_matrices>>

\* KDAC(): SetC(2);
CtorSetC ==
  /\ status = "running" /\ pc = "ctor_SetC"
  /\ SetCBody(DefaultC)
  /\ pc' = IF status' = "running" THEN "ctor_SetQ" ELSE pc
  /\ Untouched /\ UNCHANGED <<ret, history>>

\* KDAC(): SetQ(2);
CtorSetQ ==
  /\ status = "running" /\ pc = "ctor_SetQ"
  /\ SetQBody(DefaultQ)
  /\ pc' = IF status' = "running" THEN "ctor_SetKernel" ELSE pc
  /\ Untouched /\ UNCHANGED <<ret, history>>

\* KDAC(): SetKernel(kGaussianKernel, 1.0);
CtorSetKernel ==
  /\ status = "running" /\ pc = "ctor_SetKernel"
  /\ SetKernelBody("kGaussianKernel", 1)
  /\ pc' = "idle"
  /\ Untouched /\ UNCHANGED <<ret, history>>

SetC ==
  /\ status = "running" /\ pc = "idle"
  /\ \E c \in Ints : SetCBody(c)
  /\ ret' = NoRet
  /\ Untouched /\ UNCHANGED <<pc, history>>

SetQ ==
  /\ status = "running" /\ pc = "idle"
  /\ \E q \in Ints : SetQBody(q)
  /\ ret' = NoRet
  /\ Untouched /\ UNCHANGED <<pc, history>>

SetKernel ==
  /\ status = "running" /\ pc = "idle"
  /\ \E t \in KernelTypes, k \in Constants : SetKernelBody(t, k)
  /\ ret' = NoRet
  /\ Untouched /\ UNCHANGED <<pc, history>>

(* -------------------------- Fit(input_matrix) -------------------------- *)

\* Matrix<T>::Identity(n, n) - Matrix<T>::Constant(n, n, 1) / float(n):
\* entry (i, j) is the rational (n * [i = j] - 1) / n, kept as <<num, den>>.
CenteringMatrix(n) ==
  LET e == [p \in Index(n, n) |->
            LET i == p[1]
                j == p[2]
            IN <<(IF i = j THEN n ELSE 0) - 1, n>>]
  IN Matrix(n, n, e)

\* A Fit(input_matrix) whose body calls OptimizeW before OptimizeU.
FitSteps_swapped == <<"Init", "OptimizeW", "OptimizeU">>

\* The body of Fit(input_matrix): Init(input_matrix); OptimizeU(); OptimizeW();
FitSteps == <<"Init", "OptimizeU", "OptimizeW">>

\* Where control is once `step` of Fit(input_matrix) has returned: at the
\* next statement of the body, or back in the caller.
After(step) ==
  LET i == CHOOSE k \in 1..Len(FitSteps) : FitSteps[k] = step
  IN IF i = Len(FitSteps) THEN "idle" ELSE FitSteps[i + 1]

\* An Init that makes W the first q columns of the identity.
InitialW_left_columns(d, q) == Identity(d, q)

\* Init's w_matrix_ = Matrix<T>::Identity(d_, d_)
InitialW(d, q) == Identity(d, d)

\* Init(input_matrix), the first statement of Fit(input_matrix).
FitInit ==
  /\ status = "running" /\ pc = "idle"
  /\ \E input_matrix \in Inputs :
       /\ x_matrix_' = input_matrix
       /\ n_' = input_matrix.rows
       /\ d_' = input_matrix.cols
       /\ w_matrix_' = InitialW(input_matrix.cols, q_)
       /\ h_matrix_' = CenteringMatrix(input_matrix.rows)
       /\ clustering_result' = ZeroVector(input_matrix.rows)
  /\ u_converge' = FALSE
  /\ v_converge' = FALSE
  /\ pc' = After("Init")
  /\ phases' = <<>>
  /\ ret' = NoRet
  /\ UNCHANGED <<status, config, y_matrix_, embed_matrices, embed_done,
                 nonpositive_degree>>

RECURSIVE SqDist(_, _, _, _)
\* sum over k = 1..n of (P[i,k] - P[j,k])^2
SqDist(P, i, j, n) ==
  IF n = 0 THEN 0
  ELSE SqDist(P, i, j, n - 1)
         + (P.a[<<i, n>>] - P.a[<<j, n>>]) * (P.a[<<i, n>>] - P.a[<<j, n>>])

RECURSIVE RowDot(_, _, _, _)
\* sum over k = 1..n of P[i,k] * P[j,k]
RowDot(P, i, j, n) ==
  IF n = 0 THEN 0 ELSE RowDot(P, i, j, n - 1) + P.a[<<i, n>>] * P.a[<<j, n>>]

\* CpuOperations<T>::GenKernelMatrix(P, kernel_type, constant): the symmetric
\* n x n matrix of kernel values of the rows of P.  A value is kept as the
\* kernel, its constant and the quantity the kernel is a function of (the
\* squared distance of the two rows for the Gaussian kernel, their inner
\* product for the polynomial and the linear kernel).
GenKernelMatrix(P, kernel_type, constant) ==
  LET e == [p \in Index(P.rows, P.rows) |->
            LET i == p[1]
                j == p[2]
            IN [kernel |-> kernel_type, constant |-> constant,
            arg |-> IF kernel_type = "kGaussianKernel"
            THEN SqDist(P, i, j, P.cols)
            ELSE RowDot(P, i, j, P.cols)]]
  IN Matrix(P.rows, P.rows, e)

\* CpuOperations<T>::GenDegreeMatrix(K, D, D^(-1/2)), its D: diagonal, D[i,i]
\* the sum of row i of K (kept as the tuple of its summands; the empty tuple
\* is 0).
GenDegreeMatrix_D(K) ==
  LET e == [p \in Index(K.rows, K.rows) |->
            LET i == p[1]
                j == p[2]
            IN [sum |-> IF i = j
            THEN [k \in 1..K.cols |-> K.a[<<i, k>>]]
            ELSE <<>>]]
  IN Matrix(K.rows, K.rows, e)

\* CpuOperations<T>::GenDegreeMatrix(K, D, D^(-1/2)), its D^(-1/2): diagonal,
\* the reciprocal square root of D's diagonal.
GenDegreeMatrix_DToTheMinusHalf(K) ==
  LET D == GenDegreeMatrix_D(K)
      e == [p \in Index(K.rows, K.rows) |->
            LET i == p[1]
                j == p[2]
            IN [rsqrt |-> D.a[<<i, j>>].sum]]
  IN Matrix(K.rows, K.rows, e)

\* Whether a matrix has no entries.
IsEmpty(M) == M.rows = 0 \/ M.cols = 0

\* A * B * C for matrices of floating-point terms: the product is kept as a
\* term over the entries of its three factors (no entries: the empty matrix).
Product3(A, B, C) ==
  LET P == [rows |-> A.rows, cols |-> C.cols]
  IN Matrix(P.rows, P.cols,
            IF IsEmpty(P) THEN <<>> ELSE <<"product", A.a, B.a, C.a>>)

\* SvdSolver<T>::Compute(L); MatrixU(): the n x n matrix of left singular
\* vectors of L, kept as a term over the entries of L.
SvdMatrixU(L) ==
  Matrix(L.rows, L.rows, IF L.rows = 0 THEN <<>> ELSE <<"svd_u", L.a>>)

\* Eigen's M.leftCols(c) for 0 <= c <= M.cols, a term over the entries of M.
LeftCols(M, c) ==
  Matrix(M.rows, c,
         IF M.rows = 0 \/ c = 0 THEN <<>> ELSE <<"left_cols", c, M.a, <<>>>>)

\* M.leftCols(c) for c > M.cols in a build without Eigen's assertions: the
\* columns past the last one are read from whatever follows the buffer (g).
LeftColsPastEnd(M, c, g) ==
  Matrix(M.rows, c,
         IF M.rows = 0 THEN <<>> ELSE <<"left_cols", c, M.a, <<g>>>>)

\* CpuOperations<T>::Normalize(U, 2, 1): every row of U scaled by its L2
\* norm, kept as a term over the entries of U.
Normalize(U) ==
  Matrix(U.rows, U.cols, IF IsEmpty(U) THEN <<>> ELSE <<"normalized", U.a>>)

\* The values an indeterminate T read past a buffer may have.
GarbageVals == {0, 1}

\* CpuOperations<T>::GenDegreeMatrix(K, D, D^(-1/2)): whether the D it
\* computes from K may have a zero or negative diagonal entry.  A Gaussian
\* kernel value is exp(..) > 0 and K[i,i] = exp(0), so every row sum is
\* positive; the values of the polynomial and the linear kernel are not
\* fixed by any text at hand, and a row sum of theirs may have either sign.
\* A matrix without rows has no diagonal entry.
NonPositiveDegree(K) ==
  IF K.rows = 0 \/ \A p \in Index(K.rows, K.cols) :
                      K.a[p].kernel = "kGaussianKernel"
  THEN {FALSE}
  ELSE {FALSE, TRUE}

\* An OptimizeU() in which a zero or negative degree goes unreported: D and
\* D^(-1/2) are stored as computed and L, U and U_normalized are computed
\* from them.
OptimizeU_unreported_degree ==
  /\ status = "running" /\ pc = "OptimizeU"
  /\ LET projected_x_matrix == Multiply(x_matrix_, w_matrix_)
         K == GenKernelMatrix(projected_x_matrix, kernel_type_, constant_)
         Dh == GenDegreeMatrix_DToTheMinusHalf(K)
         L == Product3(Dh, K, Dh)
     IN /\ k_matrix_' = K
        /\ nonpositive_degree' \in NonPositiveDegree(K)
        /\ d_matrix_' = GenDegreeMatrix_D(K)
        /\ d_matrix_to_the_minus_half_' = Dh
        /\ l_matrix_' = L
        /\ \/ /\ c_ \in 0..n_
              /\ u_matrix_' = LeftCols(SvdMatrixU(L), c_)
              /\ u_matrix_normalized_' = Normalize(u_matrix_')
              /\ status' = status
           \/ /\ c_ > n_
              /\ \E g \in GarbageVals :
                   u_matrix_' = LeftColsPastEnd(SvdMatrixU(L), c_, g)
              /\ u_matrix_normalized_' = Normalize(u_matrix_')
              /\ status' = status
           \/ /\ c_ \notin 0..n_
              /\ status' = "aborted"
              /\ UNCHANGED <<u_matrix_, u_matrix_normalized_>>
  /\ pc' = IF status' = "running" THEN After("OptimizeU") ELSE pc
  /\ phases' = IF status' = "running" THEN Append(phases, "EMBED") ELSE phases
  /\ embed_done' = (embed_done \/ status' = "running")
  /\ UNCHANGED <<config, dims, flags, init_matrices, y_matrix_, ret>>

\* OptimizeU(), the second statement of Fit(input_matrix).  GenDegreeMatrix
\* reports a zero or negative degree as a fatal numerical failure: nothing
\* in OptimizeU or Fit catches it, so the call ends there, with K stored
\* and D, D^(-1/2), L, U and U_normalized not assigned.  leftCols(c_) is
\* defined for 0 <= c_ <= n_; otherwise Eigen's assertion aborts the process
\* or, in a build with NDEBUG and c_ > n_, the block is read past the buffer.
OptimizeU ==
  /\ status = "running" /\ pc = "OptimizeU"
  /\ LET projected_x_matrix == Multiply(x_matrix_, w_matrix_)
         K == GenKernelMatrix(projected_x_matrix, kernel_type_, constant_)
         Dh == GenDegreeMatrix_DToTheMinusHalf(K)
         L == Product3(Dh, K, Dh)
     IN /\ k_matrix_' = K
        /\ nonpositive_degree' \in NonPositiveDegree(K)
        /\ \/ /\ nonpositive_degree'
              /\ status' = "failed"
              /\ UNCHANGED <<d_matrix_, d_matrix_to_the_minus_half_,
                             l_matrix_, u_matrix_, u_matrix_normalized_>>
           \/ /\ ~nonpositive_degree'
              /\ d_matrix_' = GenDegreeMatrix_D(K)
              /\ d_matrix_to_the_minus_half_' = Dh
              /\ l_matrix_' = L
              /\ \/ /\ c_ \in 0..n_
                    /\ u_matrix_' = LeftCols(SvdMatrixU(L), c_)
                    /\ u_matrix_normalized_' = Normalize(u_matrix_')
                    /\ status' = status
                 \/ /\ c_ > n_
                    /\ \E g \in GarbageVals :
                         u_matrix_' = LeftColsPastEnd(SvdMatrixU(L), c_, g)
                    /\ u_matrix_normalized_' = Normalize(u_matrix_')
                    /\ status' = status
                 \/ /\ c_ \notin 0..n_
                    /\ status' = "aborted"
                    /\ UNCHANGED <<u_matrix_, u_matrix_normalized_>>
  /\ pc' = IF status' = "running" THEN After("OptimizeU") ELSE pc
  /\ phases' = IF status' = "running" THEN Append(phases, "EMBED") ELSE phases
  /\ embed_done' = (embed_done \/ status' = "running")
  /\ UNCHANGED <<config, dims, flags, init_matrices, y_matrix_, ret>>

\* What OptimizeU() stores for the data X, the projection W, the kernel
\* (t, k) and the cluster number c: <<K, D, D^(-1/2), L, U, U_normalized>>,
\* in the order of embed_matrices.  g is what a leftCols(c) past the last
\* column reads.
EmbeddingStep(X, W, t, k, c, g) ==
  LET K == GenKernelMatrix(Multiply(X, W), t, k)
      Dh == GenDegreeMatrix_DToTheMinusHalf(K)
      L == Product3(Dh, K, Dh)
      U == IF c <= L.rows THEN LeftCols(SvdMatrixU(L), c)
           ELSE LeftColsPastEnd(SvdMatrixU(L), c, g)
  IN <<K, GenDegreeMatrix_D(K), Dh, L, U, Normalize(U)>>

\* An OptimizeW that updates the projection: it stores a new W (here the
\* d x d zero matrix) and leaves the embedding as OptimizeU computed it.
OptimizeW_updating_W ==
  /\ status = "running" /\ pc = "OptimizeW"
  /\ w_matrix_' = Matrix(d_, d_, [p \in Index(d_, d_) |-> 0])
  /\ pc' = "idle"
  /\ phases' = Append(phases, "PROJECT")
  /\ UNCHANGED <<status, config, dims, flags, x_matrix_, h_matrix_,
                 clustering_result, y_matrix_, embed_matrices, ret,
                 embed_done, nonpositive_degree>>

\* OptimizeW(), the last statement of Fit(input_matrix): an empty body.
OptimizeW ==
  /\ status = "running" /\ pc = "OptimizeW"
  /\ pc' = After("OptimizeW")
  /\ phases' = Append(phases, "PROJECT")
  /\ UNCHANGED <<status, fields, ret, embed_done, nonpositive_degree>>

\* Fit(void): an empty body.
FitVoid ==
  /\ status = "running" /\ pc = "idle"
  /\ ret' = NoRet
  /\ UNCHANGED <<status, pc, fields, history>>

(* ------------------------------ Predict ------------------------------- *)

\* The entries an indeterminate label vector may hold.
GarbageLabels == {0, DefaultC}

\* The vectors a Predict() that returns without a return statement may hand
\* to its caller.
GarbageVectors ==
  { [len |-> n, a |-> [i \in 1..n |-> g]] : n \in Dims, g \in GarbageLabels }

\* Predict(): a Vector<T> function whose body is empty.  Flowing off its end
\* is undefined: the caller gets an indeterminate vector, or the process
\* crashes.
Predict ==
  /\ status = "running" /\ pc = "idle"
  /\ \/ /\ \E v \in GarbageVectors : ret' = [kind |-> "vector", value |-> v]
        /\ status' = status
     \/ /\ status' = "aborted"
        /\ ret' = NoRet
  /\ UNCHANGED <<pc, fields, history>>

Next ==
  \/ CtorSetC
  \/ CtorSetQ
  \/ CtorSetKernel
  \/ SetC
  \/ SetQ
  \/ SetKernel
  \/ FitInit
  \/ OptimizeU
  \/ OptimizeW
  \/ FitVoid
  \/ Predict

Spec == Init /\ [][Next]_vars

(* ------------------------------- claims ------------------------------- *)

\* ---- C1 ----
\* C1: once the first setter call has been made, q <= c holds in every state
\* in which the process still runs; a state with q > c is one in which a
\* setter has ended the process with exit(1), outside Fit, and in which no
\* step of Fit can run any more.
C1_QNeverExceedsC ==
  (pc # "ctor_SetC" /\ q_ > c_) =>
     /\ status = "exited"
     /\ pc \notin FitPcs
     /\ ~ENABLED (FitInit \/ OptimizeU \/ OptimizeW)

\* A setter called on the constructed engine has ended the process on q > c.
C1_Witness == status = "exited" /\ pc = "idle" /\ q_ > c_

\* ---- C2 ----
\* C2: between two public calls of a running engine, c and q are positive
\* (a non-positive c or q was refused when it was set).
C2_NonPositiveRefused ==
  (status = "running" /\ pc = "idle") => (c_ >= 1 /\ q_ >= 1)

\* ---- C3 ----
\* C3: the initialization and embedding steps of Fit never run on an empty
\* input matrix (n = 0 rows or d = 0 columns).
C3_EmptyInputRefused ==
  (pc \in FitPcs \/ phases # <<>>) => (x_matrix_.rows >= 1 /\ x_matrix_.cols >= 1)

\* ---- C4 ----
\* C4: Predict hands a label vector to its caller only if an embedding
\* (OptimizeU) has completed before.
C4_PredictNeedsEmbedding ==
  ret.kind = "vector" => embed_done

\* ---- C5 ----
\* C5: under a valid configuration (1 <= q <= c, and c <= n so that U has c
\* columns to take), a Predict that follows a completed Fit(input) on a
\* non-empty input returns a label vector of length n whose every entry
\* lies in [0, c).
C5_LabelsInRange ==
  (/\ pc = "idle" /\ phases # <<>> /\ ret # NoRet
   /\ x_matrix_.rows >= 1 /\ x_matrix_.cols >= 1
   /\ 1 <= q_ /\ q_ <= c_ /\ c_ <= n_) =>
     /\ ret.kind = "vector"
     /\ ret.value.len = n_
     /\ \A i \in 1..ret.value.len : ret.value.a[i] \in 0..(c_ - 1)

\* ---- C6 ----
\* C6: a public call on the constructed engine that ends in a fatal error
\* leaves every engine field as it was before the call.
C6_FatalLeavesFieldsUntouched ==
  [][(pc = "idle" /\ status = "running" /\ status' # "running")
        => fields' = fields]_vars

\* ---- C7 ----
\* The round budget of Fit(input_matrix): its body is one OptimizeU and one
\* OptimizeW.
MaxRounds == 1

\* The phases alternate, starting with EMBED.
Alternating(log) ==
  \A i \in 1..Len(log) : log[i] = IF i % 2 = 1 THEN "EMBED" ELSE "PROJECT"

\* C7: the phases of a Fit(input) run in strict alternation starting with
\* EMBED, and a Fit(input) that has returned has run whole rounds and has
\* stopped with both convergence flags set or with its round budget used up.
C7_PhasesAlternate ==
  /\ Alternating(phases)
  /\ (pc = "OptimizeU" /\ status = "running") => Len(phases) % 2 = 0
  /\ pc = "OptimizeW" => Len(phases) % 2 = 1
  /\ (pc = "idle" /\ phases # <<>>) =>
        /\ Len(phases) % 2 = 0
        /\ (u_converge /\ v_converge) \/ Len(phases) = 2 * MaxRounds

\* A Fit(input) has returned after one EMBED and one PROJECT, not converged.
C7_Witness ==
  /\ status = "running" /\ pc = "idle"
  /\ phases = <<"EMBED", "PROJECT">>
  /\ ~u_converge /\ ~v_converge

\* ---- C8 ----
\* C8: under a valid configuration (1 <= q <= c <= n) and a non-empty input,
\* the state Init leaves depends only on the configuration and the input:
\* K, D, D^(-1/2), L, U and U_normalized hold no entry, as after Init on a
\* freshly constructed engine, so no value derived from a previous input
\* survives initialization; and the K the embedding step stores is the
\* kernel matrix of the current input.
C8_FitIsFullReset ==
  /\ (/\ status = "running" /\ pc = After("Init") /\ pc # "idle"
      /\ d_ >= 1 /\ 1 <= q_ /\ q_ <= c_ /\ c_ <= n_) =>
        /\ k_matrix_.a = <<>>
        /\ d_matrix_.a = <<>>
        /\ d_matrix_to_the_minus_half_.a = <<>>
        /\ l_matrix_.a = <<>>
        /\ u_matrix_.a = <<>>
        /\ u_matrix_normalized_.a = <<>>
  /\ (status = "running" /\ pc = After("OptimizeU") /\ pc # "idle") =>
        k_matrix_ = GenKernelMatrix(x_matrix_, kernel_type_, constant_)

\* ---- C9 ----
\* C9: the constructor never ends the process: while control is inside
\* KDAC() the process runs.
C9_ConstructorCompletes ==
  pc \in CtorPcs => status = "running"

\* ---- C10 ----
\* An input has been initialized: control is inside Fit(input) or a
\* Fit(input) has got past its embedding step.
Initialized == pc \in FitPcs \/ phases # <<>>

C11_EmbeddingConsistentWithW ==
  (status = "running" /\ pc = "idle" /\ phases # <<>>) =>
     \E t \in KernelTypes, k \in Constants, c \in Ints \cup {DefaultC},
        g \in GarbageVals :
          embed_matrices = EmbeddingStep(x_matrix_, w_matrix_, t, k, c, g)

\* A Fit(input) on a non-empty input with at least c rows has returned
\* under the linear kernel: K depends on X*W, and U has its c columns.
C11_Witness ==
  /\ status = "running" /\ pc = "idle"
  /\ phases = <<"EMBED", "PROJECT">>
  /\ n_ >= 1 /\ d_ >= 1 /\ x_matrix_.a[<<1, 1>>] = 1
  /\ k_matrix_.a[<<1, 1>>].kernel = "kLinearKernel"
  /\ u_matrix_.cols >= 1 /\ u_matrix_.cols <= n_

Consistent == status = "running" /\ pc = "idle" /\ q_ <= c_

\* The target configurations: 1 <= q1 <= c1.
Targets == { t \in Ints \X Ints : 1 <= t[2] /\ t[2] <= t[1] }

\* A SetC(c1) called now returns; a SetQ(q1) called now returns.
SetCReturns(c1) == ENABLED (SetC /\ c_' = c1 /\ status' = "running")
SetQReturns(q1) == ENABLED (SetQ /\ q_' = q1 /\ status' = "running")

\* C13 as stated: from a running engine with q <= c, a setter call towards
\* a target configuration (SetC with a c1 >= 1, SetQ with a q1 >= 1, as the
\* first or as the second call of the pair, in either order) never ends in
\* the fatal q > c exit.
C13_EitherOrderReconfigures ==
  [][(Consistent /\ \/ (c_' # c_ /\ c_' >= 1)
                    \/ (q_' # q_ /\ q_' >= 1))
        => status' = "running"]_vars

\* C13 as amended: from a running engine with q0 <= c0 and for every target
\* (c1, q1), SetC(c1) as the first call returns exactly when q0 <= c1 and
\* SetQ(q1) as the first call returns exactly when q1 <= c0; one of the two
\* always does; and the call that completes a target never exits.
C13_SomeOrderReconfigures ==
  /\ [](Consistent =>
          \A t \in Targets :
             /\ SetCReturns(t[1]) <=> q_ <= t[1]
             /\ SetQReturns(t[2]) <=> t[2] <= c_
             /\ SetCReturns(t[1]) \/ SetQReturns(t[2]))
  /\ [][(status = "running" /\ pc = "idle" /\ <<c_, q_>>' # <<c_, q_>>
         /\ <<c_, q_>>' \in Targets)
           => status' = "running"]_vars

\* The engine has been reconfigured to (1, 1): from the default (2, 2) that
\* takes SetQ before SetC, and from there SetC(2) may go first but SetQ(2)
\* may not.
C13_Witness ==
  /\ Consistent /\ c_ = 1 /\ q_ = 1
  /\ SetCReturns(2) /\ ~SetQReturns(2)

====
